---- MODULE Spec2Model ----
(***************************************************************************)
(* Model of the login view (src/src/components/LoginPage.tsx) and of the   *)
(* PDF preview utility createPdfPreview (src/vite.config.ts).              *)
(*                                                                         *)
(* The login view is a React component with four useState cells and three  *)
(* react-hook-form instances.  A form submit is asynchronous: handleSubmit *)
(* snapshots the field values, awaits the zod resolver and only then runs  *)
(* the submit handler, so a submit is modelled as SubmitBegin (the DOM     *)
(* submit event) followed by SubmitComplete (the continuation after the    *)
(* await).  alert() is modal and blocks the handler that called it.        *)
(***************************************************************************)
EXTENDS Integers, Sequences, FiniteSets, TLC

\* ---------------------------------------------------------------- bounds
MaxPwLen == 6
MaxCodeLen == 7
MaxPending == 1
MaxCalls == 2
MaxBytes == 2
MaxPages == 2

\* ------------------------------------------------------ program constants
MinIdentifierLen == 1
MinPasswordLen == 6
CodeLen == 6
ViewportScaleTenths == 15
JpegQualityPercent == 92

NoError == "none"
None == "None"

VARIABLES
  \* ---- LoginPage
  loginMethod, showForgotPassword, show2FA, passwordlessLinkSent,
  mockUser,
  loginErrors, twoFactorErrors, forgotErrors,
  pending,        \* submits whose validation is awaited, oldest first
  ran,            \* the event handler the last step ran, None if none
  onLoginCalls,   \* arguments of the onLogin invocations so far
  alertOpen,      \* the alert() dialog currently blocking the handler
  \* ---- createPdfPreview (one call at a time)
  pc,             \* where the call is suspended, or how it ended
  file, pageNumber,
  arrayBuffer,    \* byteLength of the buffer read, empty before
  totalPages,     \* pdf.numPages, empty before the document is loaded
  canvas,         \* the drawing surface, empty before it is created
  steps,          \* the operations the call has performed, in order
  consoleErrors,  \* console.error calls (label and value logged), in order
  result,         \* the resolved value, if any
  error           \* the value the promise is rejected with, if any

loginVars == <<loginMethod, showForgotPassword, show2FA, passwordlessLinkSent,
               mockUser, loginErrors, twoFactorErrors, forgotErrors,
               pending, ran, onLoginCalls, alertOpen>>

viewState == <<loginMethod, showForgotPassword, show2FA, passwordlessLinkSent>>

pdfVars == <<pc, file, pageNumber, arrayBuffer, totalPages, canvas, steps,
             consoleErrors, result, error>>

vars == <<loginVars, pdfVars>>

\* ------------------------------------------------------------- inputs
Rep(c, n) == [i \in 1..n |-> c]

\* field values: an empty and a non-empty identifier, every password and code
\* length up to the bound, and a second spelling of the identifier and of the
\* six-character code
Identifiers == {Rep("a", 0), Rep("a", 1)}
ResetIdentifiers == Identifiers \cup {Rep("b", 1)}
Passwords == {Rep("p", n) : n \in 0..MaxPwLen}
Codes == {Rep("1", n) : n \in 0..MaxCodeLen} \cup {Rep("x", 6)}
Methods == {"account", "passwordless"}
Users == {[name |-> "N", email |-> "E", has2FAEnabled |-> b] : b \in BOOLEAN}

\* ------------------------------------------------------------- schemas
\* loginSchema with the password bound off by one
loginSchemaShortPassword(data) ==
  [identifier |-> IF Len(data.identifier) >= MinIdentifierLen THEN NoError ELSE "Required",
   password |-> IF Len(data.password) >= MinPasswordLen - 1 THEN NoError
                ELSE "Password must be at least 6 characters"]


loginSchema(data) ==
  [identifier |-> IF Len(data.identifier) >= MinIdentifierLen THEN NoError ELSE "Required",
   password |-> IF Len(data.password) >= MinPasswordLen THEN NoError
                ELSE "Password must be at least 6 characters"]

\* twoFactorSchema with min(6) in place of length(6)
twoFactorSchemaMin(data) ==
  [code |-> IF Len(data.code) >= CodeLen THEN NoError ELSE "Code must be 6 digits"]


twoFactorSchema(data) ==
  [code |-> IF Len(data.code) = CodeLen THEN NoError ELSE "Code must be 6 digits"]

forgotPasswordSchema(data) ==
  [identifier |-> IF Len(data.identifier) >= MinIdentifierLen THEN NoError ELSE "Required"]

\* a handleSubmit that ignores the resolver's errors
NoErrorsIgnored(errs) == TRUE


NoErrors(errs) == \A f \in DOMAIN errs : errs[f] = NoError

resolver(form, data) ==
  CASE form = "login" -> loginSchema(data)
    [] form = "twoFactor" -> twoFactorSchema(data)
    [] form = "forgot" -> forgotPasswordSchema(data)

\* ------------------------------------------------------------- rendering
loginFormShown == loginMethod = "account" /\ ~show2FA /\ ~showForgotPassword
\* a two-factor form rendered without its show2FA guard
twoFactorFormShownUnguarded == loginMethod = "account"


twoFactorFormShown == loginMethod = "account" /\ show2FA
forgotFormShown == loginMethod = "account" /\ showForgotPassword
passwordlessFormShown == loginMethod = "passwordless"

formShown(form) ==
  CASE form = "login" -> loginFormShown
    [] form = "twoFactor" -> twoFactorFormShown
    [] form = "forgot" -> forgotFormShown

FormData(form) ==
  CASE form = "login" -> [identifier : Identifiers, password : Passwords]
    [] form = "twoFactor" -> [code : Codes]
    [] form = "forgot" -> [identifier : ResetIdentifiers]

Forms == {"login", "twoFactor", "forgot"}

alertMessage(identifier) == <<"Password reset link sent to ", identifier>>

\* ------------------------------------------------------------- Init
PdfIdle ==
  /\ pc = "idle"
  /\ file = [exists |-> FALSE, type |-> "", size |-> 0]
  /\ pageNumber = 1
  /\ arrayBuffer = <<>>
  /\ totalPages = <<>>
  /\ canvas = <<>>
  /\ steps = <<>>
  /\ consoleErrors = <<>>
  /\ result = <<>>
  /\ error = <<>>

LoginInit ==
  /\ loginMethod = "account"
  /\ showForgotPassword = FALSE
  /\ show2FA = FALSE
  /\ passwordlessLinkSent = FALSE
  /\ mockUser \in Users
  /\ loginErrors = [identifier |-> NoError, password |-> NoError]
  /\ twoFactorErrors = [code |-> NoError]
  /\ forgotErrors = [identifier |-> NoError]
  /\ pending = <<>>
  /\ ran = None
  /\ onLoginCalls = <<>>
  /\ alertOpen = <<>>

Init == LoginInit /\ PdfIdle

\* ------------------------------------------------------------- handlers
\* onLoginSubmit that reports success whatever has2FAEnabled is
onLoginSubmitNo2FABranch(data) ==
  /\ show2FA' = mockUser.has2FAEnabled
  /\ onLoginCalls' = Append(onLoginCalls, mockUser)
  /\ UNCHANGED <<loginMethod, showForgotPassword, passwordlessLinkSent, alertOpen>>

\* the state changes of the three submit handlers, given valid data
onLoginSubmit(data) ==
  /\ IF mockUser.has2FAEnabled
       THEN /\ show2FA' = TRUE
            /\ onLoginCalls' = onLoginCalls
       ELSE /\ show2FA' = show2FA
            /\ onLoginCalls' = Append(onLoginCalls, mockUser)
  /\ UNCHANGED <<loginMethod, showForgotPassword, passwordlessLinkSent, alertOpen>>

on2FASubmit(data) ==
  /\ onLoginCalls' = Append(onLoginCalls, mockUser)
  /\ UNCHANGED <<loginMethod, showForgotPassword, show2FA, passwordlessLinkSent, alertOpen>>

\* onForgotPasswordSubmit that hides the form before it calls alert()
onForgotPasswordSubmitHideFirst(data) ==
  /\ showForgotPassword' = FALSE
  /\ alertOpen' = <<alertMessage(data.identifier)>>
  /\ UNCHANGED <<loginMethod, show2FA, passwordlessLinkSent, onLoginCalls>>

\* first half of onForgotPasswordSubmit: alert() opens and blocks
onForgotPasswordSubmit(data) ==
  /\ alertOpen' = <<alertMessage(data.identifier)>>
  /\ UNCHANGED <<loginMethod, showForgotPassword, show2FA, passwordlessLinkSent, onLoginCalls>>

\* a forgot-password handler that also marks the passwordless link as sent
AlertDismissSetsLinkSent ==
  /\ UNCHANGED pdfVars
  /\ alertOpen # <<>>
  /\ alertOpen' = <<>>
  /\ showForgotPassword' = FALSE
  /\ passwordlessLinkSent' = TRUE
  /\ ran' = None
  /\ UNCHANGED <<loginMethod, show2FA, mockUser, loginErrors,
                 twoFactorErrors, forgotErrors, pending, onLoginCalls>>

\* second half of onForgotPasswordSubmit: alert() returned
AlertDismiss ==
  /\ UNCHANGED pdfVars
  /\ alertOpen # <<>>
  /\ alertOpen' = <<>>
  /\ showForgotPassword' = FALSE
  /\ ran' = None
  /\ UNCHANGED <<loginMethod, show2FA, passwordlessLinkSent, mockUser, loginErrors,
                 twoFactorErrors, forgotErrors, pending, onLoginCalls>>

setErrors(form, errs) ==
  /\ loginErrors' = IF form = "login" THEN errs ELSE loginErrors
  /\ twoFactorErrors' = IF form = "twoFactor" THEN errs ELSE twoFactorErrors
  /\ forgotErrors' = IF form = "forgot" THEN errs ELSE forgotErrors

\* the DOM submit event of a displayed form: handleSubmit snapshots the values
SubmitBegin(form, data) ==
  /\ UNCHANGED pdfVars
  /\ alertOpen = <<>>
  /\ formShown(form)
  /\ Len(pending) < MaxPending
  /\ pending' = Append(pending, [form |-> form, data |-> data])
  /\ ran' = None
  /\ UNCHANGED <<loginMethod, showForgotPassword, show2FA, passwordlessLinkSent, mockUser,
                 loginErrors, twoFactorErrors, forgotErrors, onLoginCalls, alertOpen>>

\* the continuation of handleSubmit after the resolver's promise settled
SubmitComplete ==
  /\ UNCHANGED pdfVars
  /\ alertOpen = <<>>
  /\ pending # <<>>
  /\ LET s == Head(pending)
         errs == resolver(s.form, s.data)
     IN /\ pending' = Tail(pending)
        /\ setErrors(s.form, errs)
        /\ IF NoErrors(errs)
             THEN \/ /\ s.form = "login"
                     /\ onLoginSubmit(s.data)
                     /\ ran' = "onLoginSubmit"
                     /\ Len(onLoginCalls') <= MaxCalls
                  \/ /\ s.form = "twoFactor"
                     /\ on2FASubmit(s.data)
                     /\ ran' = "on2FASubmit"
                     /\ Len(onLoginCalls') <= MaxCalls
                  \/ /\ s.form = "forgot"
                     /\ onForgotPasswordSubmit(s.data)
                     /\ ran' = "onForgotPasswordSubmit"
             ELSE /\ ran' = None
                  /\ UNCHANGED <<loginMethod, showForgotPassword, show2FA,
                                 passwordlessLinkSent, onLoginCalls, alertOpen>>
  /\ UNCHANGED mockUser

\* "Forgot your password?" button of the login form
ForgotPasswordClick ==
  /\ UNCHANGED pdfVars
  /\ alertOpen = <<>>
  /\ loginFormShown
  /\ showForgotPassword' = TRUE
  /\ ran' = "forgotPasswordClick"
  /\ UNCHANGED <<loginMethod, show2FA, passwordlessLinkSent, mockUser, loginErrors,
                 twoFactorErrors, forgotErrors, pending, onLoginCalls, alertOpen>>

\* a Back button of the two-factor form wired to the wrong setter
Back2FAWrongSetter ==
  /\ UNCHANGED pdfVars
  /\ alertOpen = <<>>
  /\ twoFactorFormShown
  /\ showForgotPassword' = FALSE
  /\ ran' = "back2FA"
  /\ UNCHANGED <<loginMethod, show2FA, passwordlessLinkSent, mockUser, loginErrors,
                 twoFactorErrors, forgotErrors, pending, onLoginCalls, alertOpen>>

\* Back button of the two-factor form
Back2FA ==
  /\ UNCHANGED pdfVars
  /\ alertOpen = <<>>
  /\ twoFactorFormShown
  /\ show2FA' = FALSE
  /\ ran' = "back2FA"
  /\ UNCHANGED <<loginMethod, showForgotPassword, passwordlessLinkSent, mockUser, loginErrors,
                 twoFactorErrors, forgotErrors, pending, onLoginCalls, alertOpen>>

\* Back button of the forgot-password form
BackForgot ==
  /\ UNCHANGED pdfVars
  /\ alertOpen = <<>>
  /\ forgotFormShown
  /\ showForgotPassword' = FALSE
  /\ ran' = "backForgot"
  /\ UNCHANGED <<loginMethod, show2FA, passwordlessLinkSent, mockUser, loginErrors,
                 twoFactorErrors, forgotErrors, pending, onLoginCalls, alertOpen>>

\* LoginMethods calls the setLoginMethod prop, which is the bare state setter
setLoginMethod(m) ==
  /\ UNCHANGED pdfVars
  /\ alertOpen = <<>>
  /\ loginMethod' = m
  /\ ran' = "setLoginMethod"
  /\ UNCHANGED <<showForgotPassword, show2FA, passwordlessLinkSent, mockUser, loginErrors,
                 twoFactorErrors, forgotErrors, pending, onLoginCalls, alertOpen>>

\* PasswordlessForm reports a successful request through onSuccess; it does so
\* only while it is displayed
passwordlessRequestSucceeds == passwordlessFormShown

\* PasswordlessForm calls its onSuccess prop
handlePasswordlessSuccess ==
  /\ UNCHANGED pdfVars
  /\ alertOpen = <<>>
  /\ passwordlessRequestSucceeds
  /\ passwordlessLinkSent' = TRUE
  /\ ran' = "handlePasswordlessSuccess"
  /\ UNCHANGED <<loginMethod, showForgotPassword, show2FA, mockUser, loginErrors,
                 twoFactorErrors, forgotErrors, pending, onLoginCalls, alertOpen>>

Submit == \E form \in Forms : \E data \in FormData(form) : SubmitBegin(form, data)
SwitchMode == \E m \in Methods : setLoginMethod(m)

LoginNext ==
  \/ Submit
  \/ SubmitComplete
  \/ AlertDismiss
  \/ ForgotPasswordClick
  \/ Back2FA
  \/ BackForgot
  \/ SwitchMode
  \/ handlePasswordlessSuccess

Spec == Init /\ [][LoginNext]_vars


\* ================================================================
\* createPdfPreview
\* ================================================================
NoFile == [exists |-> FALSE, type |-> "", size |-> 0]
PdfType == "application/pdf"

\* an absent value is the empty sequence, a present value v is <<v>>
Files == {NoFile} \cup [exists : {TRUE}, type : {PdfType, "image/png"}, size : 0..MaxBytes]
\* the arguments after the file: none (the default applies) or one page number
PageArgs == {<<>>} \cup {<<n>> : n \in -1..(MaxPages + 1)}

Error(msg) == [isError |-> TRUE, message |-> msg]
\* what an awaited platform or pdf.js promise may be rejected with
LibraryRejections == {[isError |-> TRUE, message |-> "library failure"],
                      [isError |-> FALSE, message |-> "library failure"]}

InvalidFileType == "Invalid file type. Expected PDF."
EmptyFile == "Empty or invalid file"
PasswordProtected == "Password protected PDFs are not supported"
InvalidPageNumber(n) == "Invalid page number. Document has " \o ToString(n) \o " pages."
NoContext == "Could not create canvas context"
RenderFailed == "Failed to render PDF page"
UnknownError == "Unknown PDF processing error"

\* a type check that only tests that a file was given
validFileTypeAnyType(f) == f.exists


validFileType(f) == f.exists /\ f.type = PdfType
\* an empty check that never fires
emptyBufferNever(len) == len < 0


emptyBuffer(len) == len = 0
\* a page check without the lower bound
pageInRangeNoLowerBound(p, n) == ~(p > n)


pageInRange(p, n) == ~(p < 1 \/ p > n)

toDataURL(c, mime, quality) == [mime |-> mime, quality |-> quality, image |-> c]

\* an outer catch that replaces whatever it caught
outerCatchWrapAll(e, log) ==
  /\ consoleErrors' = log \o <<[label |-> "PDF preview error:", value |-> e]>>
  /\ error' = <<Error(UnknownError)>>
  /\ result' = <<>>
  /\ pc' = "rejected"

\* an outer catch that rethrows whatever it caught
outerCatchRethrow(e, log) ==
  /\ consoleErrors' = log \o <<[label |-> "PDF preview error:", value |-> e]>>
  /\ error' = <<e>>
  /\ result' = <<>>
  /\ pc' = "rejected"

\* the outer catch block: log, rethrow an Error unchanged, wrap anything else
outerCatch(e, log) ==
  /\ consoleErrors' = log \o <<[label |-> "PDF preview error:", value |-> e]>>
  /\ error' = <<IF e.isError THEN e ELSE Error(UnknownError)>>
  /\ result' = <<>>
  /\ pc' = "rejected"

\* the call, up to its first await
createPdfPreview(f, arg) ==
  /\ UNCHANGED loginVars
  /\ pc \in {"idle", "returned", "rejected"}
  /\ file' = f
  /\ pageNumber' = IF arg = <<>> THEN 1 ELSE arg[1]
  /\ arrayBuffer' = <<>> /\ totalPages' = <<>> /\ canvas' = <<>>
  /\ IF ~validFileType(f)
       THEN /\ steps' = <<"typeCheck">>
            /\ outerCatch(Error(InvalidFileType), <<>>)
       ELSE /\ steps' = <<"typeCheck", "arrayBuffer">>
            /\ pc' = "awaitRead"
            /\ consoleErrors' = <<>> /\ result' = <<>> /\ error' = <<>>

\* file.arrayBuffer() resolved: empty check, then getDocument
ReadResolved ==
  /\ UNCHANGED loginVars
  /\ pc = "awaitRead"
  /\ arrayBuffer' = <<file.size>>
  /\ IF emptyBuffer(file.size)
       THEN /\ steps' = steps \o <<"emptyCheck">>
            /\ outerCatch(Error(EmptyFile), consoleErrors)
       ELSE /\ steps' = steps \o <<"emptyCheck", "getDocument">>
            /\ pc' = "awaitParse"
            /\ UNCHANGED <<consoleErrors, result, error>>
  /\ UNCHANGED <<file, pageNumber, totalPages, canvas>>

\* an awaited promise of the platform or of pdf.js was rejected
AwaitRejected(at, e) ==
  /\ UNCHANGED loginVars
  /\ pc = at
  /\ outerCatch(e, consoleErrors)
  /\ UNCHANGED <<file, pageNumber, arrayBuffer, totalPages, canvas, steps>>

\* loadingTask.promise resolved: page range check, then getPage
ParseResolved(n) ==
  /\ UNCHANGED loginVars
  /\ pc = "awaitParse"
  /\ totalPages' = <<n>>
  /\ IF ~pageInRange(pageNumber, n)
       THEN /\ steps' = steps \o <<"pageCheck">>
            /\ outerCatch(Error(InvalidPageNumber(n)), consoleErrors)
       ELSE /\ steps' = steps \o <<"pageCheck", "getPage">>
            /\ pc' = "awaitPage"
            /\ UNCHANGED <<consoleErrors, result, error>>
  /\ UNCHANGED <<file, pageNumber, arrayBuffer, canvas>>

\* the document asks for a password: onPassword throws, the load fails
ParsePassword ==
  /\ UNCHANGED loginVars
  /\ pc = "awaitParse"
  /\ steps' = steps \o <<"onPassword">>
  /\ outerCatch(Error(PasswordProtected), consoleErrors)
  /\ UNCHANGED <<file, pageNumber, arrayBuffer, totalPages, canvas>>

\* a body that starts the rendering before it fills the background
PageResolvedRenderFirst(contextOk) ==
  /\ UNCHANGED loginVars
  /\ pc = "awaitPage"
  /\ IF ~contextOk
       THEN /\ steps' = steps \o <<"getViewport", "createCanvas", "getContext">>
            /\ canvas' = <<[scale |-> ViewportScaleTenths, context |-> FALSE,
                           background |-> "", page |-> <<>>]>>
            /\ outerCatch(Error(NoContext), consoleErrors)
       ELSE /\ steps' = steps \o <<"getViewport", "createCanvas", "getContext",
                                   "render", "fillRect">>
            /\ canvas' = <<[scale |-> ViewportScaleTenths, context |-> TRUE,
                           background |-> "white", page |-> <<>>]>>
            /\ pc' = "awaitRender"
            /\ UNCHANGED <<consoleErrors, result, error>>
  /\ UNCHANGED <<file, pageNumber, arrayBuffer, totalPages>>

\* pdf.getPage resolved: viewport, canvas, context, white fill, start render
PageResolved(contextOk) ==
  /\ UNCHANGED loginVars
  /\ pc = "awaitPage"
  /\ IF ~contextOk
       THEN /\ steps' = steps \o <<"getViewport", "createCanvas", "getContext">>
            /\ canvas' = <<[scale |-> ViewportScaleTenths, context |-> FALSE,
                           background |-> "", page |-> <<>>]>>
            /\ outerCatch(Error(NoContext), consoleErrors)
       ELSE /\ steps' = steps \o <<"getViewport", "createCanvas", "getContext",
                                   "fillRect", "render">>
            /\ canvas' = <<[scale |-> ViewportScaleTenths, context |-> TRUE,
                           background |-> "white", page |-> <<>>]>>
            /\ pc' = "awaitRender"
            /\ UNCHANGED <<consoleErrors, result, error>>
  /\ UNCHANGED <<file, pageNumber, arrayBuffer, totalPages>>

\* a return statement that reports the requested page as the page count
RenderResolvedPageNumberAsCount ==
  /\ UNCHANGED loginVars
  /\ pc = "awaitRender"
  /\ canvas' = <<[canvas[1] EXCEPT !.page = <<pageNumber>>]>>
  /\ steps' = steps \o <<"toDataURL">>
  /\ result' = <<[dataUrl |-> toDataURL(canvas'[1], "image/jpeg", JpegQualityPercent),
                 pageCount |-> pageNumber]>>
  /\ error' = <<>>
  /\ pc' = "returned"
  /\ UNCHANGED <<file, pageNumber, arrayBuffer, totalPages, consoleErrors>>

\* page.render(...).promise resolved: encode and return
RenderResolved ==
  /\ UNCHANGED loginVars
  /\ pc = "awaitRender"
  /\ canvas' = <<[canvas[1] EXCEPT !.page = <<pageNumber>>]>>
  /\ steps' = steps \o <<"toDataURL">>
  /\ result' = <<[dataUrl |-> toDataURL(canvas'[1], "image/jpeg", JpegQualityPercent),
                 pageCount |-> totalPages[1]]>>
  /\ error' = <<>>
  /\ pc' = "returned"
  /\ UNCHANGED <<file, pageNumber, arrayBuffer, totalPages, consoleErrors>>

\* a render catch that starts the rendering again instead of failing
RenderRejectedRetry(e) ==
  /\ UNCHANGED loginVars
  /\ pc = "awaitRender"
  /\ steps' = steps \o <<"render">>
  /\ consoleErrors' = consoleErrors \o <<[label |-> "PDF rendering error:", value |-> e]>>
  /\ UNCHANGED <<pc, file, pageNumber, arrayBuffer, totalPages, canvas, result, error>>

\* page.render(...).promise rejected: the inner catch rewraps, the outer rethrows
RenderRejected(e) ==
  /\ UNCHANGED loginVars
  /\ pc = "awaitRender"
  /\ outerCatch(Error(RenderFailed),
                consoleErrors \o <<[label |-> "PDF rendering error:", value |-> e]>>)
  /\ UNCHANGED <<file, pageNumber, arrayBuffer, totalPages, canvas, steps>>

Call == \E f \in Files : \E arg \in PageArgs : createPdfPreview(f, arg)
ReadRejected == \E e \in LibraryRejections : AwaitRejected("awaitRead", e)
ParseDone == \E n \in 1..MaxPages : ParseResolved(n)
ParseRejected == \E e \in LibraryRejections : AwaitRejected("awaitParse", e)
PageDone == \E ok \in BOOLEAN : PageResolved(ok)
PageRejected == \E e \in LibraryRejections : AwaitRejected("awaitPage", e)
RenderFailure == \E e \in LibraryRejections : RenderRejected(e)

PdfNext ==
  \/ Call
  \/ ReadResolved
  \/ ReadRejected
  \/ ParseDone
  \/ ParsePassword
  \/ ParseRejected
  \/ PageDone
  \/ PageRejected
  \/ RenderResolved
  \/ RenderFailure

PdfSpec == Init /\ [][PdfNext]_vars

\* every promise the call awaits is settled eventually, so a suspended call
\* is resumed
PdfFairSpec == PdfSpec /\ WF_vars(PdfNext)


\* ================================================================
\* Properties
\* ================================================================
Range(seq) == {seq[i] : i \in 1..Len(seq)}

AccountNormal == loginMethod = "account" /\ ~show2FA /\ ~showForgotPassword
AccountTwoFactor == loginMethod = "account" /\ show2FA /\ ~showForgotPassword
AccountForgotPassword == loginMethod = "account" /\ ~show2FA /\ showForgotPassword

\* this step is the continuation of a submit of the given form
Completes(form) ==
  /\ pending # <<>>
  /\ Head(pending).form = form
  /\ pending' = Tail(pending)
  /\ alertOpen = <<>>

submitted == Head(pending).data

\* C1: whenever the top-level login mode is switched, the state right after
\* the switch has show2FA, showForgotPassword and passwordlessLinkSent all false.
C1_SwitchResetsSubMode ==
  [][(ran' = "setLoginMethod" /\ loginMethod' # loginMethod)
       => (~show2FA' /\ ~showForgotPassword' /\ ~passwordlessLinkSent')]_vars

\* C2: in every reachable state show2FA and showForgotPassword are not both
\* true, also when events arrive while a submit's validation is pending.
C2_AtMostOneSubMode == ~(show2FA /\ showForgotPassword)

\* C3: a valid login submit handled in Account/Normal either moves the view to
\* Account/TwoFactor without calling onLogin (has2FAEnabled), or calls onLogin
\* once with the supplied account and leaves the view state unchanged.
C3_LoginSubmitOutcome ==
  [][(Completes("login") /\ ran' = "onLoginSubmit" /\ AccountNormal)
       => IF mockUser.has2FAEnabled
            THEN AccountTwoFactor' /\ onLoginCalls' = onLoginCalls
            ELSE /\ onLoginCalls' = Append(onLoginCalls, mockUser)
                 /\ viewState' = viewState]_vars

C3_Witness ==
  /\ ran = "onLoginSubmit"
  /\ mockUser.has2FAEnabled
  /\ AccountTwoFactor
  /\ onLoginCalls = <<>>

\* C4: a submit of any of the three forms whose fields break the form's rule
\* leaves the view state unchanged, calls neither onLogin nor alert, and sets
\* a field error for every failing field.
C4_InvalidSubmitKeepsState ==
  [][/\ (Completes("login") /\ Len(submitted.identifier) = 0)
          => loginErrors'.identifier # NoError
     /\ (Completes("login") /\ Len(submitted.password) < 6)
          => loginErrors'.password # NoError
     /\ (Completes("twoFactor") /\ Len(submitted.code) # 6)
          => twoFactorErrors'.code # NoError
     /\ (Completes("forgot") /\ Len(submitted.identifier) = 0)
          => forgotErrors'.identifier # NoError
     /\ (\/ Completes("login")
              /\ (Len(submitted.identifier) = 0 \/ Len(submitted.password) < 6)
         \/ Completes("twoFactor") /\ Len(submitted.code) # 6
         \/ Completes("forgot") /\ Len(submitted.identifier) = 0)
          => /\ viewState' = viewState
             /\ onLoginCalls' = onLoginCalls
             /\ alertOpen' = alertOpen]_vars

C4_Witness ==
  /\ AccountTwoFactor
  /\ twoFactorErrors.code # NoError
  /\ pending = <<>>
  /\ onLoginCalls = <<>>

\* C5: the login form runs onLoginSubmit iff the identifier has length >= 1
\* and the password length >= 6; a password of length 0..5 blocks the submit
\* and sets the password error, an empty identifier blocks it and sets the
\* identifier error.
C5_LoginFormAcceptance ==
  [][Completes("login")
       => /\ (ran' = "onLoginSubmit")
               <=> (Len(submitted.identifier) >= 1 /\ Len(submitted.password) >= 6)
          /\ Len(submitted.password) \in 0..5
               => (ran' # "onLoginSubmit" /\ loginErrors'.password # NoError)
          /\ Len(submitted.identifier) = 0
               => (ran' # "onLoginSubmit" /\ loginErrors'.identifier # NoError)]_vars

C5_Witness ==
  /\ AccountNormal
  /\ loginErrors.password # NoError
  /\ loginErrors.identifier = NoError
  /\ pending = <<>>

\* C6: a two-factor submit with a code of exactly 6 characters calls onLogin
\* with the supplied account whatever the characters are; a code of any other
\* length is rejected, onLogin is not called and the view stays where it was.
C6_TwoFactorSubmit ==
  [][(Completes("twoFactor") /\ AccountTwoFactor)
       => IF Len(submitted.code) = 6
            THEN /\ ran' = "on2FASubmit"
                 /\ onLoginCalls' = Append(onLoginCalls, mockUser)
            ELSE /\ ran' # "on2FASubmit"
                 /\ onLoginCalls' = onLoginCalls
                 /\ AccountTwoFactor'
                 /\ twoFactorErrors'.code # NoError]_vars

C6_Witness ==
  /\ ran = "on2FASubmit"
  /\ Len(onLoginCalls) = 1
  /\ onLoginCalls[1] = mockUser
  /\ AccountTwoFactor

\* C7: a forgot-password submit with a non-empty identifier, handled in
\* Account/ForgotPassword, first opens the alert naming that identifier with
\* the view still in Account/ForgotPassword; only when the alert returns does
\* the view go to Account/Normal; onLogin is not called in either step.
C7_ForgotSubmitAlertsThenReturns ==
  [][/\ (Completes("forgot") /\ AccountForgotPassword /\ Len(submitted.identifier) >= 1)
          => /\ ran' = "onForgotPasswordSubmit"
             /\ alertOpen' = <<alertMessage(submitted.identifier)>>
             /\ AccountForgotPassword'
             /\ onLoginCalls' = onLoginCalls
     /\ (alertOpen # <<>> /\ AccountForgotPassword)
          => /\ alertOpen' = <<>>
             /\ AccountNormal'
             /\ onLoginCalls' = onLoginCalls]_vars

C7_Witness ==
  /\ alertOpen # <<>>
  /\ AccountForgotPassword
  /\ ran = "onForgotPasswordSubmit"

\* C8: Back in Account/TwoFactor and Back in Account/ForgotPassword each lead
\* to Account/Normal without calling onLogin or alert; showForgotPassword
\* becomes true only by the reset request, which leads from Account/Normal to
\* Account/ForgotPassword.
C8_CancelAndResetRequest ==
  [][/\ (ran' = "back2FA" /\ AccountTwoFactor)
          => (AccountNormal' /\ onLoginCalls' = onLoginCalls /\ alertOpen' = <<>>)
     /\ (ran' = "backForgot" /\ AccountForgotPassword)
          => (AccountNormal' /\ onLoginCalls' = onLoginCalls /\ alertOpen' = <<>>)
     /\ (~showForgotPassword /\ showForgotPassword')
          => (ran' = "forgotPasswordClick" /\ AccountNormal)
     /\ (ran' = "forgotPasswordClick")
          => (AccountNormal /\ AccountForgotPassword')]_vars

C8_Witness ==
  /\ ran = "back2FA"
  /\ AccountNormal
  /\ mockUser.has2FAEnabled
  /\ onLoginCalls = <<>>

\* C9: a call with an absent file or a file whose type is not application/pdf
\* is rejected with the 'Invalid file type' error, and the call never reads
\* the bytes, never parses a document and never creates a drawing surface.
C9_InvalidTypeRejectedBeforeRead ==
  (pc # "idle" /\ (~file.exists \/ file.type # PdfType))
    => /\ pc = "rejected"
       /\ error = <<Error(InvalidFileType)>>
       /\ result = <<>>
       /\ steps = <<"typeCheck">>
       /\ arrayBuffer = <<>> /\ totalPages = <<>> /\ canvas = <<>>

C9_Witness ==
  /\ pc = "rejected"
  /\ file.exists /\ file.type = "image/png" /\ file.size > 0
  /\ error = <<Error(InvalidFileType)>>

\* C10: a call with a PDF-typed file of zero bytes is rejected with the
\* 'Empty or invalid file' error once the bytes are read and before the
\* document is handed to the decoder; no page is fetched, no surface created.
C10_EmptyFileRejectedBeforeParse ==
  (file.exists /\ file.type = PdfType /\ arrayBuffer = <<0>>)
    => /\ pc = "rejected"
       /\ error = <<Error(EmptyFile)>>
       /\ result = <<>>
       /\ steps = <<"typeCheck", "arrayBuffer", "emptyCheck">>
       /\ totalPages = <<>> /\ canvas = <<>>

C10_Witness ==
  /\ pc = "rejected"
  /\ file.type = PdfType
  /\ arrayBuffer = <<0>>
  /\ error = <<Error(EmptyFile)>>

\* C11: once a document with N pages is parsed, a requested page number
\* outside 1..N rejects the call with the 'Invalid page number' error whose
\* message reports N, before any page is obtained, any drawing surface is
\* created or any rendering is started.
C11_PageOutOfRangeRejected ==
  (totalPages # <<>> /\ (pageNumber < 1 \/ pageNumber > totalPages[1]))
    => /\ pc = "rejected"
       /\ error[1].isError
       /\ error[1].message
            = "Invalid page number. Document has " \o ToString(totalPages[1]) \o " pages."
       /\ result = <<>>
       /\ steps = <<"typeCheck", "arrayBuffer", "emptyCheck", "getDocument", "pageCheck">>
       /\ canvas = <<>>

C11_Witness ==
  /\ pc = "rejected"
  /\ totalPages = <<2>>
  /\ pageNumber = 3
  /\ error = <<Error("Invalid page number. Document has 2 pages.")>>

\* C12: a result is returned only when every check passed (PDF-typed file,
\* non-empty bytes, parsed document, page number within 1..N, drawing context
\* obtained, page rendered); its pageCount is the document's page count N
\* whatever page was requested, and its dataUrl is the JPEG encoding of the
\* drawn surface.
C12_ResultOnlyAfterAllChecks ==
  /\ result # <<>> <=> pc = "returned"
  /\ pc = "returned"
       => /\ file.exists /\ file.type = "application/pdf"
          /\ arrayBuffer # <<>> /\ arrayBuffer[1] > 0
          /\ totalPages # <<>>
          /\ pageNumber \in 1..totalPages[1]
          /\ canvas # <<>> /\ canvas[1].context
          /\ canvas[1].page = <<pageNumber>>
          /\ error = <<>>
          /\ result[1].pageCount = totalPages[1]
          /\ result[1].dataUrl.mime = "image/jpeg"
          /\ result[1].dataUrl.image = canvas[1]

C12_Witness ==
  /\ pc = "returned"
  /\ totalPages = <<2>>
  /\ pageNumber = 1
  /\ result[1].pageCount = 2

\* the failure causes of a call, read off the call's state
InvalidTypeCause == pc # "idle" /\ ~(file.exists /\ file.type = "application/pdf")
EmptyFileCause == arrayBuffer = <<0>>
PasswordCause == steps # <<>> /\ steps[Len(steps)] = "onPassword"
PageRangeCause == totalPages # <<>> /\ (pageNumber < 1 \/ pageNumber > totalPages[1])
NoContextCause == canvas # <<>> /\ ~canvas[1].context
RenderCause ==
  \E i \in 1..Len(consoleErrors) : consoleErrors[i].label = "PDF rendering error:"

Rejected(msg) == pc = "rejected" /\ error # <<>> /\ error[1].message = msg

\* C13: each of the six failure causes ends the call with a message of its
\* own (a cause holds exactly when its message is the one reported); a failed
\* call returns no result, repeats no step, and nothing follows the failure
\* but a fresh call.
C13_FailuresDistinctAndTerminal ==
  /\ [](/\ InvalidTypeCause <=> Rejected("Invalid file type. Expected PDF.")
        /\ EmptyFileCause <=> Rejected("Empty or invalid file")
        /\ PasswordCause <=> Rejected("Password protected PDFs are not supported")
        /\ PageRangeCause
             <=> (totalPages # <<>>
                  /\ Rejected("Invalid page number. Document has "
                              \o ToString(totalPages[1]) \o " pages."))
        /\ NoContextCause <=> Rejected("Could not create canvas context")
        /\ RenderCause <=> Rejected("Failed to render PDF page")
        /\ pc = "rejected" => result = <<>>
        /\ \A i, j \in 1..Len(steps) : i # j => steps[i] # steps[j])
  /\ [][pc = "rejected"
          => /\ steps'[1] = "typeCheck" /\ Len(steps') <= 2
             /\ arrayBuffer' = <<>> /\ totalPages' = <<>> /\ canvas' = <<>>
             /\ pc' \in {"awaitRead", "rejected"}]_vars

C13_Witness ==
  /\ NoContextCause
  /\ Rejected("Could not create canvas context")
  /\ result = <<>>

\* a promise of the platform or of pdf.js was rejected during the call
LibraryFailed ==
  \E i \in 1..Len(consoleErrors) : consoleErrors[i].value \in LibraryRejections

\* the value the outer catch block received
caught == consoleErrors[Len(consoleErrors)].value

\* C14 as stated: whenever the library failed (reading, parsing, obtaining or
\* rendering the page) the caller receives an error with one of the utility's
\* own messages, never the library's original error.
C14_LibraryErrorsAlwaysRewrapped ==
  (pc = "rejected" /\ LibraryFailed)
    => /\ error[1] \notin LibraryRejections
       /\ error[1].message \in {"Failed to render PDF page", "Unknown PDF processing error"}

\* C14 as amended: a failure of the page rendering is replaced by the
\* utility's 'Failed to render PDF page' error and a library failure that is
\* not an Error by 'Unknown PDF processing error'; an Error raised by the
\* library while reading, parsing or obtaining the page reaches the caller
\* unchanged.
C14_OnlyRenderAndNonErrorsRewrapped ==
  (pc = "rejected" /\ LibraryFailed)
    => IF RenderCause
         THEN error = <<Error("Failed to render PDF page")>>
         ELSE /\ caught \in LibraryRejections
              /\ IF caught.isError
                   THEN error = <<caught>>
                   ELSE error = <<Error("Unknown PDF processing error")>>

C14_Witness ==
  /\ pc = "rejected"
  /\ LibraryFailed
  /\ ~RenderCause
  /\ caught.isError
  /\ error = <<caught>>
  /\ steps[Len(steps)] = "getDocument"

\* the order of the operations of one call
StepOrder ==
  <<"typeCheck", "arrayBuffer", "emptyCheck", "getDocument", "pageCheck", "getPage",
    "getViewport", "createCanvas", "getContext", "fillRect", "render", "toDataURL">>

IsPrefix(p, q) == Len(p) <= Len(q) /\ \A i \in 1..Len(p) : p[i] = q[i]

Done(step) == step \in Range(steps)

\* C15: the operations of a call happen in the order type check, read, empty
\* check, parse, page check, get page, surface, white fill, rasterize, encode
\* (a password request can only end the parse); an asynchronous step is
\* started only when the previous one has delivered its value, the white fill
\* precedes the rasterization and the encoding happens only after the
\* rendering has completed.
C15_StepsInOrder ==
  /\ \/ IsPrefix(steps, StepOrder)
     \/ steps = <<"typeCheck", "arrayBuffer", "emptyCheck", "getDocument", "onPassword">>
  /\ pc = "awaitRead" => steps[Len(steps)] = "arrayBuffer"
  /\ pc = "awaitParse" => steps[Len(steps)] = "getDocument"
  /\ pc = "awaitPage" => steps[Len(steps)] = "getPage"
  /\ pc = "awaitRender" => steps[Len(steps)] = "render"
  /\ Done("getDocument") => (arrayBuffer # <<>> /\ arrayBuffer[1] > 0)
  /\ Done("getPage") => (totalPages # <<>> /\ pageNumber \in 1..totalPages[1])
  /\ Done("createCanvas") <=> canvas # <<>>
  /\ Done("render") => (canvas[1].context /\ canvas[1].background = "white")
  /\ Done("toDataURL")
       <=> (pc = "returned" /\ canvas[1].page = <<pageNumber>>)
  /\ (canvas # <<>> /\ canvas[1].page # <<>>) => pc = "returned"

C15_Witness ==
  /\ pc = "returned"
  /\ steps = StepOrder

\* C16: once onLogin has been invoked the view makes no further state
\* transition and does not invoke onLogin again, whatever UI events follow on
\* the same component instance.
C16_CallbackIsTerminal ==
  [][onLoginCalls # <<>>
       => (viewState' = viewState /\ onLoginCalls' = onLoginCalls)]_vars

\* C17: passwordlessLinkSent becomes true only by handlePasswordlessSuccess,
\* taken while loginMethod is 'passwordless' and the link was not yet sent
\* (Passwordless/Normal), and that step changes nothing else of the view; no
\* other event (submits, Back, reset request, mode switch) changes the flag.
C17_LinkSentOnlyByPasswordlessSuccess ==
  [][/\ (~passwordlessLinkSent /\ passwordlessLinkSent')
          => /\ ran' = "handlePasswordlessSuccess"
             /\ loginMethod = "passwordless" /\ loginMethod' = "passwordless"
             /\ show2FA' = show2FA /\ showForgotPassword' = showForgotPassword
             /\ onLoginCalls' = onLoginCalls /\ alertOpen' = <<>>
     /\ ran' # "handlePasswordlessSuccess"
          => passwordlessLinkSent' = passwordlessLinkSent
     /\ ran' = "handlePasswordlessSuccess"
          => (loginMethod = "passwordless" /\ passwordlessLinkSent')]_vars

C17_Witness ==
  /\ passwordlessLinkSent
  /\ loginMethod = "passwordless"
  /\ ran = "handlePasswordlessSuccess"
  /\ ~show2FA /\ ~showForgotPassword

\* this step is the submit event of the given form
Begins(form) ==
  /\ Len(pending') = Len(pending) + 1
  /\ pending'[Len(pending')].form = form

\* C18: when the account has has2FAEnabled, onLogin is invoked only by a
\* two-factor submit whose code has exactly 6 characters; a two-factor submit
\* can be made only while show2FA is set, show2FA is set only by a valid
\* credentials submit, and a credentials submit is made only in
\* Account/Normal; so no login submit, forgot-password submit, Back, reset
\* request or mode switch invokes onLogin.
C18_TwoFactorNotBypassed ==
  [][mockUser.has2FAEnabled
       => /\ onLoginCalls' # onLoginCalls
               => /\ ran' = "on2FASubmit"
                  /\ Completes("twoFactor")
                  /\ Len(submitted.code) = 6
                  /\ onLoginCalls' = Append(onLoginCalls, mockUser)
          /\ Begins("twoFactor") => (show2FA /\ loginMethod = "account")
          /\ (~show2FA /\ show2FA')
               => /\ ran' = "onLoginSubmit"
                  /\ Completes("login")
                  /\ Len(submitted.identifier) >= 1
                  /\ Len(submitted.password) >= 6
          /\ Begins("login") => AccountNormal]_vars

C18_Witness ==
  /\ mockUser.has2FAEnabled
  /\ ran = "on2FASubmit"
  /\ Len(onLoginCalls) = 1
  /\ show2FA
  /\ twoFactorErrors.code = NoError

Suspended == pc \in {"awaitRead", "awaitParse", "awaitPage", "awaitRender"}

TypeOK ==
  /\ loginMethod \in Methods
  /\ showForgotPassword \in BOOLEAN /\ show2FA \in BOOLEAN /\ passwordlessLinkSent \in BOOLEAN
  /\ Len(pending) <= MaxPending
====
